---- MODULE Spec2Model ----
(***************************************************************************)
(* State-machine model of the bunary example applications:                 *)
(*   nested-routes : /api/users and /api/posts over two in-memory arrays   *)
(*   basic-api     : stateless echo handlers, /items pagination,           *)
(*                   /resources create/update/delete                       *)
(*                                                                         *)
(* JavaScript strings that the code builds, parses or compares (ids, path  *)
(* and query parameters, formatted text) are sequences of one-character    *)
(* strings, so that String(n), parseInt and template literals are computed *)
(* and not assumed.  Payload text the code only copies (names, e-mail      *)
(* addresses, titles) is an opaque TLA+ string.                            *)
(* Array positions are 1-based; position 0 stands for JavaScript's -1.     *)
(***************************************************************************)
EXTENDS Integers, Sequences, FiniteSets, TLC

VARIABLES
    users,       \* nested-routes: the users mock array
    posts,       \* nested-routes: the posts mock array
    last,        \* nested-routes: the latest request with its response
    createdIds,  \* nested-routes: ids returned by POST /api/users, in order
    createdPosts, \* nested-routes: posts returned by POST /api/posts, in order
    resp,        \* basic-api: the latest request with its response
    issued,      \* basic-api: the UUIDs crypto.randomUUID() has returned
    postLog,     \* basic-api: the POST /resources requests with their responses
    req,         \* the server that listens and the request it dispatched last
    query,       \* basic-orm: the query builder a model handed out
    fetched,     \* basic-orm: the latest terminal operation with its result
    held,        \* basic-orm: a query builder a call site keeps for later
    mw,          \* basic-api: the logging middleware's position, locals and log
    inflight     \* nested-routes: the POST requests awaiting request.json()

routeVars == <<users, posts, last, createdIds, createdPosts>>
apiVars == <<resp, issued, postLog>>
ormVars == <<query, fetched, held>>
callerVars == <<req, mw, inflight>>
vars == <<users, posts, last, createdIds, createdPosts, resp, issued, postLog, req, query,
          fetched, held, mw, inflight>>

----------------------------------------------------------------------------
(* Bounds of the model *)

\* Entries created (POST /api/users and POST /api/posts together) in one behaviour
MaxCreates == 2

----------------------------------------------------------------------------
(* JavaScript values *)

\* null / undefined; no string, since its one element is not a character
Null == <<"<null>">>

DigitChars == <<"0", "1", "2", "3", "4", "5", "6", "7", "8", "9">>

\* String(n) for an integer n >= 0: its decimal digits
RECURSIVE String(_)
String(n) ==
    IF n < 10 THEN <<DigitChars[n + 1]>>
    ELSE String(n \div 10) \o <<DigitChars[(n % 10) + 1]>>

\* findLastIndex in place of findIndex: the last position, 0 when none
FindLastIndex(arr, id) ==
    IF \E i \in 1..Len(arr) : arr[i].id = id
    THEN CHOOSE i \in 1..Len(arr) :
            /\ arr[i].id = id
            /\ \A j \in (i + 1)..Len(arr) : arr[j].id # id
    ELSE 0

\* Array.prototype.findIndex on the id field: first position, 0 when none
FindIndex(arr, id) ==
    IF \E i \in 1..Len(arr) : arr[i].id = id
    THEN CHOOSE i \in 1..Len(arr) :
            /\ arr[i].id = id
            /\ \A j \in 1..(i - 1) : arr[j].id # id
    ELSE 0

\* The value undefined where an object is expected
Undefined == [undefined |-> TRUE]

\* A lookup that reads the id as a position in the array
FindByPosition(arr, id) ==
    IF \E i \in 1..Len(arr) : String(i) = id
    THEN arr[CHOOSE i \in 1..Len(arr) : String(i) = id]
    ELSE Undefined

\* Array.prototype.find on the id field: first matching entry, else undefined
Find(arr, id) ==
    IF FindIndex(arr, id) = 0 THEN Undefined ELSE arr[FindIndex(arr, id)]

\* Array.prototype.splice(index, 1): the array without position index
Splice(arr, index) ==
    [i \in 1..(Len(arr) - 1) |-> IF i < index THEN arr[i] ELSE arr[i + 1]]

\* A handler returning a plain object: the framework answers 200 with it
Json(body) == [outcome |-> "return", status |-> 200, body |-> body]

\* new Response(JSON.stringify(body), {status})
Response(status, body) == [outcome |-> "return", status |-> status, body |-> body]

\* A handler whose promise rejects: nothing is returned
Thrown == [outcome |-> "throw", status |-> 0, body |-> Undefined]

----------------------------------------------------------------------------
(* nested-routes: the mock arrays and the users routes *)

InitialUsers ==
    << [id |-> <<"1">>, name |-> "Alice", email |-> "alice@example.com"],
       [id |-> <<"2">>, name |-> "Bob", email |-> "bob@example.com"],
       [id |-> <<"3">>, name |-> "Charlie", email |-> "charlie@example.com"] >>

InitialPosts ==
    << [id |-> <<"1">>, title |-> "Hello World", authorId |-> <<"1">>],
       [id |-> <<"2">>, title |-> "Getting Started with Bunary", authorId |-> <<"1">>],
       [id |-> <<"3">>, title |-> "TypeScript Tips", authorId |-> <<"2">>] >>

\* Entries created so far in both arrays
Created == Len(createdIds) + (Len(posts) - Len(InitialPosts))

\* Request inputs
UserBodies ==
    { [name |-> "Dave", email |-> "dave@example.com"],
      [name |-> "Eve", email |-> "eve@example.com"] }
Malformed == [name |-> "<malformed>", email |-> "<malformed>"]
IdParams ==
    { String(n) : n \in 1..(Len(InitialUsers) + MaxCreates) } \cup { <<"0", "1">>, <<"9", "9", "9">> }

NoRequest == [op |-> "none", arg |-> Null, res |-> Thrown]
Exchange(op, arg, res) == [op |-> op, arg |-> arg, res |-> res]

\* GET /api/users
ListUsersHandler == Json([users |-> users])

\* GET /api/users/:id
GetUserHandler(id) ==
    LET user == Find(users, id)
    IN  IF user = Undefined
        THEN Response(404, [error |-> "User not found"])
        ELSE Json([user |-> user])

\* POST /api/users: the entry built after the body has been parsed
NewUser(body) ==
    [id |-> String(Len(users) + 1), name |-> body.name, email |-> body.email]

ListUsers ==
    /\ last' = Exchange("GET /api/users", Null, ListUsersHandler)
    /\ UNCHANGED <<users, posts, createdIds, createdPosts, apiVars, ormVars>>

GetUser ==
    \E id \in IdParams :
        /\ last' = Exchange("GET /api/users/:id", id, GetUserHandler(id))
        /\ UNCHANGED <<users, posts, createdIds, createdPosts, apiVars, ormVars>>

\* POST /api/users adding the entry with unshift() at the front
CreateUserAtFront ==
    \E body \in UserBodies :
        /\ Created < MaxCreates
        /\ users' = <<NewUser(body)>> \o users
        /\ createdIds' = Append(createdIds, NewUser(body).id)
        /\ last' = Exchange("POST /api/users", body,
                            Response(201, [user |-> NewUser(body)]))
        /\ UNCHANGED <<posts, createdPosts, apiVars, ormVars>>

CreateUser ==
    \E body \in UserBodies :
        /\ Created < MaxCreates
        /\ users' = Append(users, NewUser(body))
        /\ createdIds' = Append(createdIds, NewUser(body).id)
        /\ last' = Exchange("POST /api/users", body,
                            Response(201, [user |-> NewUser(body)]))
        /\ UNCHANGED <<posts, createdPosts, apiVars, ormVars>>

\* POST /api/users with a body that is not JSON: request.json() rejects
CreateUserMalformed ==
    /\ last' = Exchange("POST /api/users", Malformed, Thrown)
    /\ UNCHANGED <<users, posts, createdIds, createdPosts, apiVars, ormVars>>

\* DELETE /api/users/:id without the index === -1 test: splice(-1, 1)
\* removes the last entry
DeleteUserUnchecked ==
    \E id \in IdParams :
        LET index == IF FindIndex(users, id) = 0 THEN Len(users) ELSE FindIndex(users, id)
        IN  /\ index > 0
            /\ last' = Exchange("DELETE /api/users/:id", id,
                                Json([deleted |-> users[index]]))
            /\ users' = Splice(users, index)
            /\ UNCHANGED <<posts, createdIds, createdPosts, apiVars, ormVars>>

\* DELETE /api/users/:id removing with shift() once the id is known to exist
DeleteUserShift ==
    \E id \in IdParams :
        LET index == FindIndex(users, id)
        IN  /\ IF index = 0
               THEN /\ last' = Exchange("DELETE /api/users/:id", id,
                                        Response(404, [error |-> "User not found"]))
                    /\ UNCHANGED users
               ELSE /\ last' = Exchange("DELETE /api/users/:id", id,
                                        Json([deleted |-> users[1]]))
                    /\ users' = Splice(users, 1)
            /\ UNCHANGED <<posts, createdIds, createdPosts, apiVars, ormVars>>

DeleteUser ==
    \E id \in IdParams :
        LET index == FindIndex(users, id)
        IN  /\ IF index = 0
               THEN /\ last' = Exchange("DELETE /api/users/:id", id,
                                        Response(404, [error |-> "User not found"]))
                    /\ UNCHANGED users
               ELSE /\ last' = Exchange("DELETE /api/users/:id", id,
                                        Json([deleted |-> users[index]]))
                    /\ users' = Splice(users, index)
            /\ UNCHANGED <<posts, createdIds, createdPosts, apiVars, ormVars>>

----------------------------------------------------------------------------
(* nested-routes: the posts routes *)

\* Request inputs
PostBodies ==
    { [title |-> "New Post", authorId |-> <<"1">>],
      [title |-> "New Post", authorId |-> <<"7">>] }
MalformedPost == [title |-> "<malformed>", authorId |-> Null]
AuthorParams == { Null, <<>>, <<"1">>, <<"2">>, <<"7">> }
PostIdParams == { <<"1">>, <<"3">>, <<"4">>, <<"0", "1">>, <<"9", "9", "9">> }

\* A test against null alone, which lets the empty string through
NotNull(s) == s # Null

\* JavaScript truthiness of a string-or-null value
Truthy(s) == s # Null /\ s # <<>>

\* Array.prototype.find in place of filter: the first match only
FirstByAuthor(arr, authorId) ==
    IF \E i \in 1..Len(arr) : arr[i].authorId = authorId
    THEN << arr[CHOOSE i \in 1..Len(arr) :
                  /\ arr[i].authorId = authorId
                  /\ \A j \in 1..(i - 1) : arr[j].authorId # authorId] >>
    ELSE <<>>

\* Array.prototype.filter on the authorId field
RECURSIVE FilterByAuthor(_, _)
FilterByAuthor(arr, authorId) ==
    IF arr = <<>> THEN <<>>
    ELSE IF Head(arr).authorId = authorId
         THEN <<Head(arr)>> \o FilterByAuthor(Tail(arr), authorId)
         ELSE FilterByAuthor(Tail(arr), authorId)

\* GET /api/posts, authorId being ctx.query.get("authorId")
ListPostsHandler(authorId) ==
    IF Truthy(authorId)
    THEN Json([posts |-> FilterByAuthor(posts, authorId)])
    ELSE Json([posts |-> posts])

\* GET /api/posts/:id
GetPostHandler(id) ==
    LET post == Find(posts, id)
    IN  IF post = Undefined
        THEN Response(404, [error |-> "Post not found"])
        ELSE Json([post |-> post])

\* The id taken from the length before the push, without the + 1
NewPostZeroBased(body) ==
    [id |-> String(Len(posts)), title |-> body.title, authorId |-> body.authorId]

\* POST /api/posts: the entry built after the body has been parsed
NewPost(body) ==
    [id |-> String(Len(posts) + 1), title |-> body.title, authorId |-> body.authorId]

ListPosts ==
    \E authorId \in AuthorParams :
        /\ last' = Exchange("GET /api/posts", authorId, ListPostsHandler(authorId))
        /\ UNCHANGED <<users, posts, createdIds, createdPosts, apiVars, ormVars>>

GetPost ==
    \E id \in PostIdParams :
        /\ last' = Exchange("GET /api/posts/:id", id, GetPostHandler(id))
        /\ UNCHANGED <<users, posts, createdIds, createdPosts, apiVars, ormVars>>

\* POST /api/posts answering 201 without the push
CreatePostNotStored ==
    \E body \in PostBodies :
        /\ Len(createdPosts) < MaxCreates
        /\ createdPosts' = Append(createdPosts, NewPost(body))
        /\ last' = Exchange("POST /api/posts", body,
                            Response(201, [post |-> NewPost(body)]))
        /\ UNCHANGED <<users, posts, createdIds, apiVars, ormVars>>

CreatePost ==
    \E body \in PostBodies :
        /\ Created < MaxCreates
        /\ posts' = Append(posts, NewPost(body))
        /\ createdPosts' = Append(createdPosts, NewPost(body))
        /\ last' = Exchange("POST /api/posts", body,
                            Response(201, [post |-> NewPost(body)]))
        /\ UNCHANGED <<users, createdIds, apiVars, ormVars>>

\* POST /api/posts with a body that is not JSON: request.json() rejects
CreatePostMalformed ==
    /\ last' = Exchange("POST /api/posts", MalformedPost, Thrown)
    /\ UNCHANGED <<users, posts, createdIds, createdPosts, apiVars, ormVars>>

\* GET /
RootHandler ==
    Json([status |-> "ok", message |-> "Nested Routes Example",
          endpoints |-> <<"/api/users", "/api/posts">>])

Root ==
    /\ last' = Exchange("GET /", Null, RootHandler)
    /\ UNCHANGED <<users, posts, createdIds, createdPosts, apiVars, ormVars>>

----------------------------------------------------------------------------
(* basic-api: JavaScript conversions *)

\* Bounds of the request inputs of GET /items
MaxPage == 3
MaxLimit == 4
\* POST /resources requests answered in one behaviour
MaxResources == 2

\* The number NaN, a value outside the integers the model computes with
NaN == -999999

IsDigit(c) == \E d \in 1..10 : DigitChars[d] = c
DigitValue(c) == (CHOOSE d \in 1..10 : DigitChars[d] = c) - 1

\* Leading white space is skipped by parseInt
RECURSIVE TrimStart(_)
TrimStart(s) ==
    IF s # <<>> /\ Head(s) = " " THEN TrimStart(Tail(s)) ELSE s

\* The longest prefix of s made of decimal digits
RECURSIVE DigitPrefix(_)
DigitPrefix(s) ==
    IF s # <<>> /\ IsDigit(Head(s))
    THEN <<Head(s)>> \o DigitPrefix(Tail(s))
    ELSE <<>>

RECURSIVE DigitsValue(_)
DigitsValue(ds) ==
    IF ds = <<>> THEN 0
    ELSE DigitsValue(SubSeq(ds, 1, Len(ds) - 1)) * 10 + DigitValue(ds[Len(ds)])

\* parseInt(s, 10): optional white space and sign, then the leading digits;
\* NaN when there is no digit
ParseInt(s) ==
    LET t == TrimStart(s)
        signed == t # <<>> /\ Head(t) \in {"-", "+"}
        ds == DigitPrefix(IF signed THEN Tail(t) ELSE t)
    IN  IF ds = <<>> THEN NaN
        ELSE IF signed /\ Head(t) = "-" THEN 0 - DigitsValue(ds)
        ELSE DigitsValue(ds)

\* a || b on strings: a when it is neither null nor empty
OrElse(a, b) == IF Truthy(a) THEN a ELSE b

\* Arithmetic on numbers: NaN absorbs
NumAdd(a, b) == IF a = NaN \/ b = NaN THEN NaN ELSE a + b
NumMul(a, b) == IF a = NaN \/ b = NaN THEN NaN ELSE a * b

\* A number inside a template literal
NumberToString(n) ==
    IF n = NaN THEN <<"N", "a", "N">>
    ELSE IF n < 0 THEN <<"-">> \o String(0 - n)
    ELSE String(n)

\* ToLength of Array.from({length: n}): NaN and negatives give 0
ToLength(n) == IF n = NaN \/ n < 0 THEN 0 ELSE n

\* new Date().toISOString() at clock reading t
IsoString(t) == <<"T">> \o String(t)

----------------------------------------------------------------------------
(* basic-api: handlers *)

\* Request inputs
PathParams == { <<"1">>, <<"4", "2">>, <<"a", "b">> }
PageParams ==
    { String(p) : p \in 1..MaxPage }
        \cup { Null, <<>>, <<"0">>, <<"0", "2">>, <<"-", "1">>, <<"2", "x">>, <<"x">> }
LimitParams ==
    { String(l) : l \in 1..MaxLimit }
        \cup { Null, <<>>, <<"0">>, <<" ", "3">>, <<"-", "2">>, <<"x">> }
SearchParams == { Null, <<>>, <<"t", "e", "s", "t">> }
Times == { 1, 2 }
BodyFields == { "id", "name", "updatedAt" }
BodyValues == { <<"x">> }
\* JSON objects: every assignment of values to some of the fields
Bodies == UNION { [D -> BodyValues] : D \in SUBSET BodyFields }
UuidPool == { <<"u">> \o String(n) : n \in 1..(MaxResources + 1) }

\* GET /users/:id
UserHandler(id) ==
    Json([id |-> id,
          name |-> <<"U", "s", "e", "r", " ">> \o id,
          email |-> <<"u", "s", "e", "r">> \o id
                        \o <<"@", "e", "x", "a", "m", "p", "l", "e", ".", "c", "o", "m">>])

\* The title with the two parameters in each other's place
SwappedPostTitle(userId, postId) ==
    <<"P", "o", "s", "t", " ">> \o userId \o <<" ", "b", "y", " ", "U", "s", "e", "r", " ">> \o postId

\* The title template of GET /users/:userId/posts/:postId
PostTitle(userId, postId) ==
    <<"P", "o", "s", "t", " ">> \o postId \o <<" ", "b", "y", " ", "U", "s", "e", "r", " ">> \o userId

\* GET /users/:userId/posts/:postId
UserPostHandler(userId, postId) ==
    Json([userId |-> userId,
          postId |-> postId,
          title |-> PostTitle(userId, postId),
          content |-> "This is a sample post content."])

\* GET /items: the three query parameters as the handler reads them
ItemsPage(q) == ParseInt(OrElse(q.page, <<"1">>))

\* parseInt of the limit parameter with no default
LimitWithoutDefault(q) == ParseInt(IF q.limit = Null THEN <<>> ELSE q.limit)

ItemsLimit(q) == ParseInt(OrElse(q.limit, <<"1", "0">>))

\* The search parameter without the final "|| null"
SearchAsGiven(q) == OrElse(q.search, <<>>)

ItemsSearch(q) ==
    LET search == OrElse(q.search, <<>>)
    IN  IF Truthy(search) THEN search ELSE Null

\* The id of the item at 0-based position i
ItemId(page, limit, i) == NumAdd(NumAdd(NumMul(NumAdd(page, -1), limit), i), 1)

\* Items numbered from (page - 1) * limit, without the "+ 1"
ItemsFromOffsetZero(page, limit) ==
    [k \in 1..ToLength(limit) |->
        [id |-> ItemId(page, limit, k - 1) - 1,
         name |-> <<"I", "t", "e", "m", " ">> \o NumberToString(ItemId(page, limit, k - 1) - 1)]]

\* Array.from({length: limit}, (_, i) => ...)
ItemsList(page, limit) ==
    [k \in 1..ToLength(limit) |->
        [id |-> ItemId(page, limit, k - 1),
         name |-> <<"I", "t", "e", "m", " ">> \o NumberToString(ItemId(page, limit, k - 1))]]

ItemsHandler(q) ==
    Json([page |-> ItemsPage(q),
          limit |-> ItemsLimit(q),
          search |-> ItemsSearch(q),
          total |-> 100,
          items |-> ItemsList(ItemsPage(q), ItemsLimit(q))])

\* {first, ...body, lastKey: lastValue}: later keys replace earlier ones
Spread(firstKey, firstValue, body, lastKey, lastValue) ==
    (lastKey :> lastValue) @@ body @@ (firstKey :> firstValue)

\* POST /resources, after the body has been parsed
CreateResourceHandler(body, uuid, now) ==
    Response(201, Spread("id", uuid, body, "createdAt", IsoString(now)))

\* PUT /resources/:id, after the body has been parsed
UpdateResourceHandler(id, body, now) ==
    Json(Spread("id", id, body, "updatedAt", IsoString(now)))

\* DELETE /resources/:id
DeleteResourceHandler(id, now) ==
    Json([message |-> <<"R", "e", "s", "o", "u", "r", "c", "e", " ">> \o id
                          \o <<" ", "d", "e", "l", "e", "t", "e", "d">>,
          deletedAt |-> IsoString(now)])

GetApiUser ==
    \E id \in PathParams :
        /\ resp' = Exchange("GET /users/:id", id, UserHandler(id))
        /\ UNCHANGED <<routeVars, issued, postLog, ormVars>>

GetApiUserPost ==
    \E userId \in PathParams, postId \in PathParams :
        /\ resp' = Exchange("GET /users/:userId/posts/:postId",
                            [userId |-> userId, postId |-> postId],
                            UserPostHandler(userId, postId))
        /\ UNCHANGED <<routeVars, issued, postLog, ormVars>>

GetItems ==
    \E page \in PageParams, limit \in LimitParams, search \in SearchParams :
        LET q == [page |-> page, limit |-> limit, search |-> search]
        IN  /\ resp' = Exchange("GET /items", q, ItemsHandler(q))
            /\ UNCHANGED <<routeVars, issued, postLog, ormVars>>

UpdateResource ==
    \E id \in PathParams, body \in Bodies, now \in Times :
        /\ resp' = Exchange("PUT /resources/:id", [id |-> id, body |-> body],
                            UpdateResourceHandler(id, body, now))
        /\ UNCHANGED <<routeVars, issued, postLog, ormVars>>

\* PUT /resources/:id with a body that is not JSON: request.json() rejects
UpdateResourceMalformed ==
    \E id \in PathParams :
        /\ resp' = Exchange("PUT /resources/:id", [id |-> id, body |-> Undefined], Thrown)
        /\ UNCHANGED <<routeVars, issued, postLog, ormVars>>

DeleteResource ==
    \E id \in PathParams, now \in Times :
        /\ resp' = Exchange("DELETE /resources/:id", id, DeleteResourceHandler(id, now))
        /\ UNCHANGED <<routeVars, issued, postLog, ormVars>>

\* crypto.randomUUID() returns a UUID it has not returned before (a repeat
\* has probability about 2^-122 and is left out)
CreateResource ==
    \E body \in Bodies, uuid \in UuidPool \ issued, now \in Times :
        /\ Len(postLog) < MaxResources
        /\ issued' = issued \cup {uuid}
        /\ resp' = Exchange("POST /resources", body, CreateResourceHandler(body, uuid, now))
        /\ postLog' = Append(postLog, resp')
        /\ UNCHANGED <<routeVars, ormVars>>

\* POST /resources with a body that is not JSON: request.json() rejects
CreateResourceMalformed ==
    /\ resp' = Exchange("POST /resources", Undefined, Thrown)
    /\ UNCHANGED <<routeVars, issued, postLog, ormVars>>

----------------------------------------------------------------------------
(* Route registration of both applications and the dispatch of a request *)

\* Path segments as the characters between two slashes
SegApi == <<"a", "p", "i">>
SegUsers == <<"u", "s", "e", "r", "s">>
SegPosts == <<"p", "o", "s", "t", "s">>
SegHealth == <<"h", "e", "a", "l", "t", "h">>
SegItems == <<"i", "t", "e", "m", "s">>
SegResources == <<"r", "e", "s", "o", "u", "r", "c", "e", "s">>
SegNonexistent == <<"n", "o", "n", "e", "x", "i", "s", "t", "e", "n", "t">>

\* A pattern is a sequence of literal segments and :name parameters
Literal(seg) == [kind |-> "literal", text |-> seg, name |-> ""]
Param(name) == [kind |-> "param", text |-> <<>>, name |-> name]
Route(method, pattern, handler) ==
    [method |-> method, pattern |-> pattern, handler |-> handler]

\* registerUserRoutes(app, prefix)
RegisterUserRoutes(prefix) ==
    << Route("GET", prefix, "GET /api/users"),
       Route("GET", prefix \o <<Param("id")>>, "GET /api/users/:id"),
       Route("POST", prefix, "POST /api/users"),
       Route("DELETE", prefix \o <<Param("id")>>, "DELETE /api/users/:id") >>

\* registerPostRoutes(app, prefix)
RegisterPostRoutes(prefix) ==
    << Route("GET", prefix, "GET /api/posts"),
       Route("GET", prefix \o <<Param("id")>>, "GET /api/posts/:id"),
       Route("POST", prefix, "POST /api/posts") >>

\* registerRoutes(app)
RegisterRoutes ==
    RegisterUserRoutes(<<Literal(SegApi), Literal(SegUsers)>>)
        \o RegisterPostRoutes(<<Literal(SegApi), Literal(SegPosts)>>)

\* The root route registered on a one-segment parameter in place of "/"
NestedRoutesRootWildcard ==
    <<Route("GET", <<Param("page")>>, "GET /")>> \o RegisterRoutes

\* nested-routes: app.get("/") followed by registerRoutes(app)
NestedRoutes ==
    <<Route("GET", <<>>, "GET /")>> \o RegisterRoutes

\* basic-api without the /health registration
ApiRoutesWithoutHealth ==
    << Route("GET", <<>>, "GET /"),
       Route("GET", <<Literal(SegUsers), Param("id")>>, "GET /users/:id"),
       Route("GET", <<Literal(SegUsers), Param("userId"), Literal(SegPosts), Param("postId")>>,
             "GET /users/:userId/posts/:postId"),
       Route("GET", <<Literal(SegItems)>>, "GET /items"),
       Route("POST", <<Literal(SegResources)>>, "POST /resources"),
       Route("PUT", <<Literal(SegResources), Param("id")>>, "PUT /resources/:id"),
       Route("DELETE", <<Literal(SegResources), Param("id")>>, "DELETE /resources/:id") >>

\* basic-api: the routes in the order app.get/post/put/delete register them
ApiRoutes ==
    << Route("GET", <<Literal(SegHealth)>>, "GET /health"),
       Route("GET", <<>>, "GET /"),
       Route("GET", <<Literal(SegUsers), Param("id")>>, "GET /users/:id"),
       Route("GET", <<Literal(SegUsers), Param("userId"), Literal(SegPosts), Param("postId")>>,
             "GET /users/:userId/posts/:postId"),
       Route("GET", <<Literal(SegItems)>>, "GET /items"),
       Route("POST", <<Literal(SegResources)>>, "POST /resources"),
       Route("PUT", <<Literal(SegResources), Param("id")>>, "PUT /resources/:id"),
       Route("DELETE", <<Literal(SegResources), Param("id")>>, "DELETE /resources/:id") >>

RoutesOf(app) == IF app = "nested-routes" THEN NestedRoutes ELSE ApiRoutes

\* The framework's matching: a path matches a pattern of the same number
\* of segments whose literal segments are the path's
Matches(pattern, path) ==
    /\ Len(pattern) = Len(path)
    /\ \A i \in 1..Len(pattern) :
          pattern[i].kind = "literal" => pattern[i].text = path[i]

\* ctx.params: the path's segment at the place of the parameter
ParamOf(pattern, path, name) ==
    path[CHOOSE i \in 1..Len(pattern) :
            pattern[i].kind = "param" /\ pattern[i].name = name]

\* The framework's dispatch: the first registered route of the method
\* whose pattern the path matches; 405 when only routes of other methods
\* match the path; 404 when no route does
NotFound == [handler |-> "404", pattern |-> <<>>]
MethodNotAllowed == [handler |-> "405", pattern |-> <<>>]
Dispatch(routes, method, path) ==
    LET hits == { i \in 1..Len(routes) :
                    routes[i].method = method /\ Matches(routes[i].pattern, path) }
    IN  IF hits # {}
        THEN LET first == CHOOSE i \in hits : \A j \in hits : i <= j
             IN  [handler |-> routes[first].handler, pattern |-> routes[first].pattern]
        ELSE IF \E i \in 1..Len(routes) : Matches(routes[i].pattern, path)
             THEN MethodNotAllowed
             ELSE NotFound

\* POST /resources requests dispatched in one behaviour
MaxRouted == 1

\* Requests the clients send: a method and a path without query string
NoneReceived == [app |-> "none", method |-> "GET", path |-> <<>>]
Apps == { "nested-routes", "basic-api" }
Methods == { "GET", "POST", "PUT", "DELETE", "PATCH" }
NestedPaths ==
    { <<>>,
      <<SegApi, SegUsers>>, <<SegApi, SegUsers, <<"2">>>>, <<SegApi, SegUsers, <<"9", "9", "9">>>>,
      <<SegApi, SegPosts>>, <<SegApi, SegPosts, <<"1">>>>,
      <<SegNonexistent>>, <<SegApi, SegNonexistent>>, <<SegApi>>,
      <<SegApi, SegUsers, <<"2">>, SegPosts>> }
ApiPaths ==
    { <<>>, <<SegHealth>>, <<SegItems>>,
      <<SegUsers, <<"1">>>>, <<SegUsers, <<"1">>, SegPosts, <<"4", "2">>>>,
      <<SegResources>>, <<SegResources, <<"1">>>>,
      <<SegNonexistent>>, <<SegApi, SegNonexistent>>, <<SegUsers>>,
      <<SegHealth, <<"1">>>> }
PathsOf(app) == IF app = "nested-routes" THEN NestedPaths ELSE ApiPaths

\* isDev() of @bunary/core decides the environment text
Environments == { <<"d", "e", "v", "e", "l", "o", "p", "m", "e", "n", "t">>,
                  <<"p", "r", "o", "d", "u", "c", "t", "i", "o", "n">> }

\* basic-api GET /health
HealthHandler(now) ==
    Json([status |-> "healthy", timestamp |-> IsoString(now)])

\* basic-api GET /
WelcomeHandler(environment) ==
    Json([message |-> "Welcome to Bunary!", environment |-> environment, docs |-> "/docs"])

GetHealth ==
    \E now \in Times :
        /\ resp' = Exchange("GET /health", Null, HealthHandler(now))
        /\ UNCHANGED <<routeVars, issued, postLog, ormVars>>

GetWelcome ==
    \E environment \in Environments :
        /\ resp' = Exchange("GET /", Null, WelcomeHandler(environment))
        /\ UNCHANGED <<routeVars, issued, postLog, ormVars>>

\* The answer the framework gives when it runs no handler
Unhandled(route) ==
    Exchange("no handler", Null,
             Response(IF route = NotFound THEN 404 ELSE 405, Undefined))

\* app.listen({ port }): one of the two servers starts
Listen ==
    /\ req.app = "none"
    /\ \E app \in Apps : req' = [app |-> app, method |-> "GET", path |-> <<>>]
    /\ UNCHANGED <<routeVars, apiVars, ormVars, mw, inflight>>

\* The bodies the routed POST and PUT requests carry
RoutedUserBody == [name |-> "Dave", email |-> "dave@example.com"]
RoutedPostBody == [title |-> "New Post", authorId |-> <<"7">>]
RoutedResourceBody == ("name" :> <<"x">>)

\* nested-routes: the framework dispatches the request to the handler of
\* the route it matches, or answers by itself
ServeNested ==
    /\ req.app = "nested-routes"
    /\ \E method \in Methods, path \in NestedPaths :
       LET route == Dispatch(NestedRoutes, method, path)
       IN
        /\ req' = [req EXCEPT !.method = method, !.path = path]
        /\ \/ route.handler = "GET /" /\ Root
           \/ route.handler = "GET /api/users" /\ ListUsers
           \/ /\ route.handler = "GET /api/users/:id"
              /\ GetUser
              /\ last'.arg = ParamOf(route.pattern, path, "id")
           \/ /\ route.handler = "POST /api/users"
              /\ \/ CreateUser /\ last'.arg = RoutedUserBody
                 \/ CreateUserMalformed
           \/ /\ route.handler = "DELETE /api/users/:id"
              /\ DeleteUser
              /\ last'.arg = ParamOf(route.pattern, path, "id")
           \/ /\ route.handler = "GET /api/posts"
              /\ ListPosts
              /\ last'.arg = Null
           \/ /\ route.handler = "GET /api/posts/:id"
              /\ GetPost
              /\ last'.arg = ParamOf(route.pattern, path, "id")
           \/ /\ route.handler = "POST /api/posts"
              /\ \/ CreatePost /\ last'.arg = RoutedPostBody
                 \/ CreatePostMalformed
           \/ /\ route \in {NotFound, MethodNotAllowed}
              /\ last' = Unhandled(route)
              /\ UNCHANGED <<users, posts, createdIds, createdPosts, apiVars, ormVars>>

\* basic-api: the same dispatch over the routes of basic-api
ServeApiRequest(method, path) ==
    LET route == Dispatch(ApiRoutes, method, path)
    IN
     /\ req' = [req EXCEPT !.method = method, !.path = path]
     /\ \/ route.handler = "GET /health" /\ GetHealth
        \/ route.handler = "GET /" /\ GetWelcome
        \/ /\ route.handler = "GET /users/:id"
           /\ GetApiUser
           /\ resp'.arg = ParamOf(route.pattern, path, "id")
        \/ /\ route.handler = "GET /users/:userId/posts/:postId"
           /\ GetApiUserPost
           /\ resp'.arg = [userId |-> ParamOf(route.pattern, path, "userId"),
                           postId |-> ParamOf(route.pattern, path, "postId")]
        \/ /\ route.handler = "GET /items"
           /\ GetItems
           /\ resp'.arg = [page |-> Null, limit |-> Null, search |-> Null]
        \/ /\ route.handler = "POST /resources"
           /\ \/ /\ Len(postLog) < MaxRouted
                 /\ CreateResource
                 /\ resp'.arg = RoutedResourceBody
              \/ CreateResourceMalformed
        \/ /\ route.handler = "PUT /resources/:id"
           /\ \/ UpdateResource /\ resp'.arg.body = RoutedResourceBody
              \/ UpdateResourceMalformed
           /\ resp'.arg.id = ParamOf(route.pattern, path, "id")
        \/ /\ route.handler = "DELETE /resources/:id"
           /\ DeleteResource
           /\ resp'.arg = ParamOf(route.pattern, path, "id")
        \/ /\ route \in {NotFound, MethodNotAllowed}
           /\ resp' = Unhandled(route)
           /\ UNCHANGED <<routeVars, issued, postLog, ormVars>>

ServeApi ==
    /\ req.app = "basic-api"
    /\ \E method \in Methods, path \in ApiPaths : ServeApiRequest(method, path)

----------------------------------------------------------------------------
(* basic-api: the logging middleware around the dispatch *)

\* Requests the middleware may see before MaxRequests of them are served
MaxRequests == 2

\* A response not produced yet
Pending == [outcome |-> "pending", status |-> 0, body |-> Undefined]

\* The middleware before any request: nothing read, next() not called,
\* nothing written to the console
MiddlewareIdle ==
    [pc |-> "idle", method |-> "GET", path |-> <<>>, start |-> 0, calls |-> 0,
     completed |-> 0, served |-> 0, response |-> Pending, returned |-> Pending,
     log |-> <<>>]

\* The requests sent through the middleware
LoggedRequests ==
    { [method |-> "GET", path |-> <<SegHealth>>],
      [method |-> "GET", path |-> <<SegUsers, <<"1">>>>],
      [method |-> "POST", path |-> <<SegResources>>],
      [method |-> "PATCH", path |-> <<SegHealth>>],
      [method |-> "GET", path |-> <<SegNonexistent>>] }

\* `${method} ${url.pathname} - ${duration}ms`
LogLine(method, path, duration) ==
    [method |-> method, pathname |-> path, duration |-> duration]

\* A middleware that writes its line before it calls next()
MiddlewareEnterLogging ==
    /\ req.app = "basic-api"
    /\ mw.pc \in {"idle", "returned", "rejected"}
    /\ mw.served < MaxRequests
    /\ \E request \in LoggedRequests, start \in Times :
        mw' = [mw EXCEPT !.pc = "awaiting",
                         !.method = request.method,
                         !.path = request.path,
                         !.start = start,
                         !.calls = 1,
                         !.served = @ + 1,
                         !.response = Pending,
                         !.returned = Pending,
                         !.log = Append(@, LogLine(request.method, request.path, 0))]
    /\ UNCHANGED <<routeVars, apiVars, ormVars, req, inflight>>

\* The middleware reads the method, the URL and the clock, then calls next()
\* and suspends on it
MiddlewareEnter ==
    /\ req.app = "basic-api"
    /\ mw.pc \in {"idle", "returned", "rejected"}
    /\ mw.served < MaxRequests
    /\ \E request \in LoggedRequests, start \in Times :
        mw' = [mw EXCEPT !.pc = "awaiting",
                         !.method = request.method,
                         !.path = request.path,
                         !.start = start,
                         !.calls = 1,
                         !.served = @ + 1,
                         !.response = Pending,
                         !.returned = Pending]
    /\ UNCHANGED <<routeVars, apiVars, ormVars, req, inflight>>

\* next() runs the dispatch and the handler; the await resumes with the
\* response, or rethrows when the handler's promise rejected
MiddlewareNext ==
    /\ mw.pc = "awaiting"
    /\ ServeApiRequest(mw.method, mw.path)
    /\ mw' = IF resp'.res = Thrown
             THEN [mw EXCEPT !.pc = "rejected"]
             ELSE [mw EXCEPT !.pc = "resumed",
                             !.completed = @ + 1,
                             !.response = resp'.res]
    /\ UNCHANGED inflight

\* const duration = Date.now() - start; console.log(...)
MiddlewareLog ==
    /\ mw.pc = "resumed"
    /\ \E end \in Times :
        /\ end >= mw.start
        /\ mw' = [mw EXCEPT !.pc = "logged",
                            !.log = Append(@, LogLine(mw.method, mw.path,
                                                      end - mw.start))]
    /\ UNCHANGED <<routeVars, apiVars, ormVars, req, inflight>>

\* return response
MiddlewareReturn ==
    /\ mw.pc = "logged"
    /\ mw' = [mw EXCEPT !.pc = "returned", !.returned = mw.response]
    /\ UNCHANGED <<routeVars, apiVars, ormVars, req, inflight>>

----------------------------------------------------------------------------
(* nested-routes: POST requests in flight together *)

\* A POST handler suspended at await ctx.request.json(): its route, the
\* body on its way, and the length its array had when the handler started
Awaiting(route, body, length) == [route |-> route, body |-> body, seen |-> length]

\* The other handlers in flight once the k-th has resumed
Others(k) == [i \in 1..(Len(inflight) - 1) |-> IF i < k THEN inflight[i] ELSE inflight[i + 1]]

\* POST /api/users arrives and its handler runs up to the await
BeginCreateUser ==
    /\ Created + Len(inflight) < MaxCreates
    /\ \E body \in UserBodies \cup {Malformed} :
          inflight' = Append(inflight, Awaiting("POST /api/users", body, Len(users)))
    /\ UNCHANGED <<routeVars, apiVars, ormVars, req, mw>>

\* POST /api/posts arrives and its handler runs up to the await
BeginCreatePost ==
    /\ Created + Len(inflight) < MaxCreates
    /\ \E body \in PostBodies \cup {MalformedPost} :
          inflight' = Append(inflight, Awaiting("POST /api/posts", body, Len(posts)))
    /\ UNCHANGED <<routeVars, apiVars, ormVars, req, mw>>

\* The id taken from users.length before the await, the push after it
ResumeCreateUserStaleId ==
    \E k \in 1..Len(inflight) :
        LET body == inflight[k].body
            newUser == [id |-> String(inflight[k].seen + 1), name |-> body.name,
                        email |-> body.email]
        IN  /\ inflight[k].route = "POST /api/users"
            /\ body # Malformed
            /\ users' = Append(users, newUser)
            /\ createdIds' = Append(createdIds, newUser.id)
            /\ last' = Exchange("POST /api/users", body, Response(201, [user |-> newUser]))
            /\ inflight' = Others(k)
            /\ UNCHANGED <<posts, createdPosts, apiVars, ormVars, req, mw>>

\* request.json() of one of the POST /api/users handlers in flight settles
\* and the handler runs from the await to its end
ResumeCreateUser ==
    \E k \in 1..Len(inflight) :
        /\ inflight[k].route = "POST /api/users"
        /\ IF inflight[k].body = Malformed THEN CreateUserMalformed ELSE CreateUser
        /\ last'.arg = inflight[k].body
        /\ inflight' = Others(k)
        /\ UNCHANGED <<req, mw>>

\* The same for POST /api/posts
ResumeCreatePost ==
    \E k \in 1..Len(inflight) :
        /\ inflight[k].route = "POST /api/posts"
        /\ IF inflight[k].body = MalformedPost THEN CreatePostMalformed ELSE CreatePost
        /\ last'.arg = inflight[k].body
        /\ inflight' = Others(k)
        /\ UNCHANGED <<req, mw>>

----------------------------------------------------------------------------
(* basic-orm: the models, the tables of the test database, the queries *)

\* where clauses one chain may carry
MaxWheres == 2

\* The users and posts tables as the tests fill them
UsersTable ==
    << [id |-> 1, name |-> "John Doe", email |-> "john@example.com",
        password |-> "secret123", secret_key |-> "key123", age |-> 25, active |-> 1,
        createdAt |-> "CURRENT_TIMESTAMP", updatedAt |-> "CURRENT_TIMESTAMP"],
       [id |-> 2, name |-> "Jane Smith", email |-> "jane@example.com",
        password |-> "secret456", secret_key |-> "key456", age |-> 30, active |-> 1,
        createdAt |-> "CURRENT_TIMESTAMP", updatedAt |-> "CURRENT_TIMESTAMP"],
       [id |-> 3, name |-> "Bob Wilson", email |-> "bob@example.com",
        password |-> "secret789", secret_key |-> "key789", age |-> 28, active |-> 0,
        createdAt |-> "CURRENT_TIMESTAMP", updatedAt |-> "CURRENT_TIMESTAMP"],
       [id |-> 4, name |-> "Alice Brown", email |-> "alice@example.com",
        password |-> "secret012", secret_key |-> "key012", age |-> 35, active |-> 1,
        createdAt |-> "CURRENT_TIMESTAMP", updatedAt |-> "CURRENT_TIMESTAMP"],
       [id |-> 5, name |-> "Charlie Davis", email |-> "charlie@example.com",
        password |-> "secret345", secret_key |-> "key345", age |-> 22, active |-> 1,
        createdAt |-> "CURRENT_TIMESTAMP", updatedAt |-> "CURRENT_TIMESTAMP"] >>

PostsTable ==
    << [id |-> 1, user_id |-> 1, title |-> "First Post", content |-> "This is my first post!",
        published |-> 1, createdAt |-> "CURRENT_TIMESTAMP", updatedAt |-> "CURRENT_TIMESTAMP"],
       [id |-> 2, user_id |-> 1, title |-> "Second Post", content |-> "Another post by John",
        published |-> 1, createdAt |-> "CURRENT_TIMESTAMP", updatedAt |-> "CURRENT_TIMESTAMP"],
       [id |-> 3, user_id |-> 2, title |-> "Hello World", content |-> "Jane says hello",
        published |-> 1, createdAt |-> "CURRENT_TIMESTAMP", updatedAt |-> "CURRENT_TIMESTAMP"],
       [id |-> 4, user_id |-> 2, title |-> "Draft Post", content |-> "This is a draft",
        published |-> 0, createdAt |-> "CURRENT_TIMESTAMP", updatedAt |-> "CURRENT_TIMESTAMP"],
       [id |-> 5, user_id |-> 4, title |-> "Alice Post", content |-> "Content from Alice",
        published |-> 1, createdAt |-> "CURRENT_TIMESTAMP", updatedAt |-> "CURRENT_TIMESTAMP"] >>

Tables == [users |-> UsersTable, posts |-> PostsTable]

\* The Users model with secret_key left out of the protected list
UsersProtectingPassword ==
    [name |-> "Users", tableName |-> "users",
     protected |-> {"password"}, timestamps |-> TRUE]

\* class Users extends BaseModel
Users ==
    [name |-> "Users", tableName |-> "users",
     protected |-> {"password", "secret_key"}, timestamps |-> TRUE]

\* The Posts model with the timestamps flag copied from Users
PostsHidingTimestamps ==
    [name |-> "Posts", tableName |-> "posts", timestamps |-> TRUE]

\* class Posts extends BaseModel
Posts ==
    [name |-> "Posts", tableName |-> "posts"]

Models == { Users, Posts }

\* Subclasses of BaseModel that leave the static tableName undeclared, or
\* declare it empty
Untabled == [name |-> "Untabled"]
EmptyTabled == [name |-> "EmptyTabled", tableName |-> ""]
Declared == Models \cup { Untabled, EmptyTabled }

\* The columns a model's results never carry: its protected columns, and
\* createdAt and updatedAt when its timestamps flag is set
TimestampColumns == { "createdAt", "updatedAt" }
Hidden(model) ==
    (IF "protected" \in DOMAIN model THEN model.protected ELSE {})
        \cup (IF "timestamps" \in DOMAIN model /\ model.timestamps
              THEN TimestampColumns ELSE {})

\* BaseModel.query(): a query builder on the model's table; calls is the
\* record of the calls made on the chain, in call order
Query(model) ==
    [model |-> model.name, table |-> model.tableName, hidden |-> Hidden(model),
     select |-> {}, exclude |-> {}, wheres |-> <<>>, calls |-> <<>>]

\* QueryBuilder: select, exclude, where
BuilderSelect(q, columns) == [q EXCEPT !.select = columns]
BuilderExclude(q, columns) == [q EXCEPT !.exclude = @ \cup columns]
Clause(column, operator, value) ==
    [column |-> column, operator |-> operator, value |-> value]
BuilderWhere(q, clause) == [q EXCEPT !.wheres = Append(@, clause)]

\* A call made on a chain, and the chain with the call on record
Call(op, arg) == [op |-> op, arg |-> arg]
Called(q, op, arg) == [q EXCEPT !.calls = Append(@, Call(op, arg))]

\* The clauses of the where calls made on a chain, in call order
WhereCalls(q) ==
    LET IsWhere(call) == call.op = "where"
        wheres == SelectSeq(q.calls, IsWhere)
    IN  [k \in 1..Len(wheres) |-> wheres[k].arg]

\* A row satisfies a where clause
Holds(row, clause) ==
    CASE clause.operator = "=" -> row[clause.column] = clause.value
      [] clause.operator = "<" -> row[clause.column] < clause.value
      [] clause.operator = ">" -> row[clause.column] > clause.value

\* The rows of the table that satisfy every where clause, in table order
Matching(q) ==
    LET Satisfies(row) == \A k \in 1..Len(q.wheres) : Holds(row, q.wheres[k])
    IN  SelectSeq(Tables[q.table], Satisfies)

\* The columns of a result row
Columns(q) ==
    ((IF q.select = {} THEN DOMAIN Tables[q.table][1] ELSE q.select)
        \ q.exclude) \ q.hidden
Project(row, columns) == [c \in columns |-> row[c]]

\* QueryBuilder: all, first, find; null is the row that is absent
NoRow == [null |-> TRUE]
BuilderAll(q) ==
    [i \in 1..Len(Matching(q)) |-> Project(Matching(q)[i], Columns(q))]
BuilderFirst(q) ==
    IF Matching(q) = <<>> THEN NoRow ELSE Project(Matching(q)[1], Columns(q))
BuilderFind(q, id) == BuilderFirst(BuilderWhere(q, Clause("id", "=", id)))

Returned(value) == [outcome |-> "return", value |-> value]
Raised(message) == [outcome |-> "throw", value |-> message]

\* this.tableName is truthy
HasTableName(model) == "tableName" \in DOMAIN model /\ model.tableName # ""

\* `Model ${this.constructor.name} must define a tableName property`: in a
\* static method this is the class, and its constructor is Function
MissingTableName == "Model Function must define a tableName property"

\* A query() that takes the table of Users when the model declares none
BaseModelQueryDefaultTable(model) ==
    IF ~HasTableName(model)
    THEN Returned(Query([name |-> model.name, tableName |-> "users"]))
    ELSE Returned(Query(model))

\* BaseModel.query(): throws when the model has no table name, else asks
\* Model.table for a builder
BaseModelQuery(model) ==
    IF ~HasTableName(model)
    THEN Raised(MissingTableName)
    ELSE Returned(Query(model))

\* The static query methods of BaseModel
EntryPoints ==
    { "find", "all", "select", "exclude", "where", "limit", "offset", "orderBy",
      "first", "count" }

\* find in the manner of findOrFail: an error when there is no such row
ModelFindOrFail(model, id) ==
    IF BaseModelQuery(model).outcome = "throw" THEN BaseModelQuery(model)
    ELSE IF BuilderFind(BaseModelQuery(model).value, id) = NoRow
    THEN Raised("not found")
    ELSE Returned(BuilderFind(BaseModelQuery(model).value, id))

\* BaseModel.find(id): return this.query().find(id)
ModelFind(model, id) ==
    IF BaseModelQuery(model).outcome = "throw" THEN BaseModelQuery(model)
    ELSE Returned(BuilderFind(BaseModelQuery(model).value, id))

\* Inputs of the queries
SelectLists(table) ==
    IF table = "users"
    THEN { {"id", "name", "email"}, {"id", "name", "email", "password"} }
    ELSE { {"id", "title"} }
ExcludeLists(table) ==
    IF table = "users" THEN { {"password"} } ELSE { {"content"} }
WhereClauses(table) ==
    IF table = "users"
    THEN { Clause("active", "=", 1), Clause("age", "<", 30), Clause("age", ">", 25),
           Clause("id", "=", 999) }
    ELSE { Clause("published", "=", 1), Clause("user_id", "=", 1), Clause("id", "=", 999) }
FindIds == { 1, 5, 999 }

NoQuery == [model |-> "none"]
NothingFetched == [op |-> "none"]
Fetched(op, q, arg, res) == [op |-> op, query |-> q, arg |-> arg, res |-> res]

\* What a caller sees of an entry point that threw in query(): no builder
Failed(entry, model, error) ==
    [op |-> "failed", query |-> [model |-> model.name], arg |-> entry, res |-> error]

\* Model.select(...), Model.exclude(...), Model.where(...) begin a chain on
\* a builder of their own
\* A query() that hands out again the builder of the model's previous
\* chain, with what that chain put on it
StartQueryShared ==
    /\ query = NoQuery
    /\ \E model \in Declared, entry \in EntryPoints :
          IF BaseModelQuery(model).outcome = "throw"
          THEN /\ fetched' = Failed(entry, model, BaseModelQuery(model))
               /\ query' = NoQuery
          ELSE /\ fetched' = NothingFetched
               /\ query' = IF fetched.op \in {"all", "first"}
                                /\ fetched.query.model = model.name
                            THEN [fetched.query EXCEPT !.calls = <<>>]
                            ELSE BaseModelQuery(model).value
    /\ UNCHANGED <<routeVars, apiVars, callerVars, held>>

\* Every static method begins with this.query(); when that throws, the call
\* ends there
StartQuery ==
    /\ query = NoQuery
    /\ \E model \in Declared, entry \in EntryPoints :
          IF BaseModelQuery(model).outcome = "throw"
          THEN /\ fetched' = Failed(entry, model, BaseModelQuery(model))
               /\ query' = NoQuery
          ELSE /\ fetched' = NothingFetched
               /\ query' = BaseModelQuery(model).value
    /\ UNCHANGED <<routeVars, apiVars, callerVars, held>>

AddSelect ==
    /\ query # NoQuery
    /\ query.select = {}
    /\ \E columns \in SelectLists(query.table) :
          query' = Called(BuilderSelect(query, columns), "select", columns)
    /\ UNCHANGED <<routeVars, apiVars, callerVars, fetched, held>>

AddExclude ==
    /\ query # NoQuery
    /\ query.exclude = {}
    /\ \E columns \in ExcludeLists(query.table) :
          query' = Called(BuilderExclude(query, columns), "exclude", columns)
    /\ UNCHANGED <<routeVars, apiVars, callerVars, fetched, held>>

\* A where that goes back to the model's query() instead of chaining on the
\* builder it was called on: the clauses before it are gone
AddWhereFromModel ==
    /\ query # NoQuery
    /\ Len(WhereCalls(query)) < MaxWheres
    /\ \E clause \in WhereClauses(query.table) :
          query' = Called([query EXCEPT !.wheres = <<clause>>], "where", clause)
    /\ UNCHANGED <<routeVars, apiVars, callerVars, fetched, held>>

\* M.where(column, operator, value), and .where(...) on its result
AddWhere ==
    /\ query # NoQuery
    /\ Len(WhereCalls(query)) < MaxWheres
    /\ \E clause \in WhereClauses(query.table) :
          query' = Called(BuilderWhere(query, clause), "where", clause)
    /\ UNCHANGED <<routeVars, apiVars, callerVars, fetched, held>>

\* await chain.all()
FetchAll ==
    /\ query # NoQuery
    /\ fetched' = Fetched("all", query, 0, Returned(BuilderAll(query)))
    /\ query' = NoQuery
    /\ UNCHANGED <<routeVars, apiVars, callerVars, held>>

\* await chain.first()
FetchFirst ==
    /\ query # NoQuery
    /\ fetched' = Fetched("first", query, 0, Returned(BuilderFirst(query)))
    /\ query' = NoQuery
    /\ UNCHANGED <<routeVars, apiVars, callerVars, held>>

\* Calls a chain may have on it when its call site sets it aside
MaxHeldCalls == 1

\* const q = M.where(...): the call site keeps the builder and goes on to
\* other queries
SetAside ==
    /\ query # NoQuery
    /\ held = NoQuery
    /\ Len(query.calls) <= MaxHeldCalls
    /\ held' = query
    /\ query' = NoQuery
    /\ UNCHANGED <<routeVars, apiVars, callerVars, fetched>>

\* The call site comes back to the builder it kept, done with the result
\* it fetched meanwhile
Resume ==
    /\ query = NoQuery
    /\ held # NoQuery
    /\ query' = held
    /\ held' = NoQuery
    /\ fetched' = NothingFetched
    /\ UNCHANGED <<routeVars, apiVars, callerVars>>

\* await Model.find(id)
FetchFind ==
    /\ query = NoQuery
    /\ \E model \in Declared, id \in FindIds :
          fetched' = IF ~HasTableName(model)
                     THEN Failed("find", model, ModelFind(model, id))
                     ELSE Fetched("find", Query(model), id, ModelFind(model, id))
    /\ UNCHANGED <<routeVars, apiVars, callerVars, query, held>>

----------------------------------------------------------------------------
(* nested-routes: properties of the users and posts routes *)

HasId(arr, id) == \E i \in 1..Len(arr) : arr[i].id = id
IsCreation(x) == x.op = "POST /api/users" /\ x.res.outcome = "return"

\* C1: when DELETE /api/users/:id is called with an id that a creation
\* returned, the list GET /api/users serves right after the delete holds
\* no entry with that id.
C1_DeletedIdNotListed ==
    (/\ last.op = "DELETE /api/users/:id"
     /\ \E i \in 1..Len(createdIds) : createdIds[i] = last.arg)
        => ~HasId(ListUsersHandler.body.users, last.arg)

\* C2: any two users created by two different POST /api/users requests
\* receive different ids.
C2_CreatedIdsDiffer ==
    \A i, j \in 1..Len(createdIds) :
        i # j => createdIds[i] # createdIds[j]

\* C9: when POST /api/users returns a created user with id k, looking up
\* id k in the list the next GET /api/users serves finds an entry with the
\* submitted name.
C9_CreatedUserFoundInList ==
    IsCreation(last) =>
        LET found == Find(ListUsersHandler.body.users, last.res.body.user.id)
        IN  /\ found # Undefined
            /\ found.name = last.arg.name

\* C10: GET /api/users/:id and GET /api/posts/:id answer 200 with an entry
\* of the array whose id is the requested id when the array holds one, and
\* otherwise return (not throw) status 404 with {error: 'User not found'},
\* respectively {error: 'Post not found'}.
GetByIdAnswer(arr, field, message) ==
    IF HasId(arr, last.arg)
    THEN /\ last.res.outcome = "return"
         /\ last.res.status = 200
         /\ DOMAIN last.res.body = {field}
         /\ last.res.body[field].id = last.arg
         /\ \E i \in 1..Len(arr) : arr[i] = last.res.body[field]
    ELSE last.res = [outcome |-> "return", status |-> 404,
                     body |-> [error |-> message]]

C10_GetByIdFoundOr404 ==
    /\ last.op = "GET /api/users/:id" => GetByIdAnswer(users, "user", "User not found")
    /\ last.op = "GET /api/posts/:id" => GetByIdAnswer(posts, "post", "Post not found")

\* C10 witness: user 1 was deleted, its id now belongs to nobody and is
\* answered 404, while the post created as number 4 is found
C10_Witness ==
    /\ last.op = "GET /api/users/:id"
    /\ last.arg = <<"1">>
    /\ last.res.status = 404
    /\ Len(posts) = 4

\* C11: DELETE /api/users/:id with an id that no entry of the users array
\* carries answers 404 with {error: 'User not found'} and leaves the array
\* as it was, the same entries in the same order.
C11_DeleteMissingLeavesUsers ==
    [][(/\ last'.op = "DELETE /api/users/:id"
        /\ ~HasId(users, last'.arg))
          => (/\ last'.res = Response(404, [error |-> "User not found"])
              /\ users' = users)]_vars

\* C11 witness: after a creation, a delete of an id nobody carries was
\* answered 404 and the four entries are still there
C11_Witness ==
    /\ last.op = "DELETE /api/users/:id"
    /\ last.arg = <<"9", "9", "9">>
    /\ last.res.status = 404
    /\ Len(users) = Len(InitialUsers) + 1

\* C12: DELETE /api/users/:id with an id some entry carries answers 200
\* with a 'deleted' entry whose id is the requested id, and that entry was
\* in the users array immediately before the request.
C12_DeleteExistingReturnsEntry ==
    [][(/\ last'.op = "DELETE /api/users/:id"
        /\ HasId(users, last'.arg))
          => (/\ last'.res.outcome = "return"
              /\ last'.res.status = 200
              /\ DOMAIN last'.res.body = {"deleted"}
              /\ last'.res.body.deleted.id = last'.arg
              /\ \E i \in 1..Len(users) : users[i] = last'.res.body.deleted)]_vars

\* C12 witness: Bob, the second entry, was deleted and returned
C12_Witness ==
    /\ last.op = "DELETE /api/users/:id"
    /\ last.arg = <<"2">>
    /\ last.res.status = 200
    /\ last.res.body.deleted.name = "Bob"
    /\ ~HasId(users, <<"2">>)

\* C13: GET /api/posts?authorId=a with a non-empty a answers 200 with
\* exactly the entries of the posts array whose authorId is a, in array
\* order (none when there is no such entry); without authorId it answers
\* with the whole array.
PostsOfAuthor(a) ==
    LET ByAuthor(p) == p.authorId = a
    IN  SelectSeq(posts, ByAuthor)

C13_ListPostsByAuthor ==
    last.op = "GET /api/posts" =>
        /\ last.res.outcome = "return"
        /\ last.res.status = 200
        /\ DOMAIN last.res.body = {"posts"}
        /\ last.arg = Null => last.res.body.posts = posts
        /\ (last.arg # Null /\ last.arg # <<>>) =>
               last.res.body.posts = PostsOfAuthor(last.arg)

\* C13 witness: author 1 wrote the two initial posts and a created one,
\* and the filtered list holds these three of the four posts
C13_Witness ==
    /\ last.op = "GET /api/posts"
    /\ last.arg = <<"1">>
    /\ Len(posts) = 4
    /\ Len(last.res.body.posts) = 3

\* C14: in every reachable state the entry at position i (counted from 1)
\* of the posts array has id String(i), so that all post ids differ.
C14_PostIdsArePositions ==
    /\ \A i \in 1..Len(posts) : posts[i].id = String(i)
    /\ \A i, j \in 1..Len(posts) : i # j => posts[i].id # posts[j].id

\* C14 witness: two posts were created after user 1 was deleted
C14_Witness ==
    /\ Len(posts) = Len(InitialPosts) + 2
    /\ posts[5].id = <<"5">>
    /\ ~HasId(users, <<"1">>)

\* C15: once POST /api/posts has answered 201 with a created post of id k,
\* the list every later GET /api/posts without authorId serves holds an
\* entry with id k carrying the submitted title and authorId.
C15_CreatedPostStaysListed ==
    \A k \in 1..Len(createdPosts) :
        \E i \in 1..Len(ListPostsHandler(Null).body.posts) :
            LET listed == ListPostsHandler(Null).body.posts[i]
            IN  /\ listed.id = createdPosts[k].id
                /\ listed.title = createdPosts[k].title
                /\ listed.authorId = createdPosts[k].authorId

\* C15 witness: a post by author 7 was created, another request came in
\* between, and the list was then served
C15_Witness ==
    /\ Len(createdPosts) = 1
    /\ createdPosts[1].authorId = <<"7">>
    /\ last.op = "GET /api/posts"
    /\ last.arg = Null
    /\ Len(users) < Len(InitialUsers)
    /\ Len(last.res.body.posts) = Len(InitialPosts) + 1

\* C25: in every state reached from the three initial users by POST
\* /api/users and DELETE /api/users/:id requests, the ids of the entries of
\* the users array are pairwise distinct.
C25_UserIdsDistinct ==
    \A i, j \in 1..Len(users) : i # j => users[i].id # users[j].id

\* C27: a DELETE /api/users/:id answered 200 removes exactly one entry, the
\* first in array order whose id is the requested id: the array is one
\* shorter and the other entries keep their order.
C27_DeleteRemovesFirstMatch ==
    [][(/\ last'.op = "DELETE /api/users/:id"
        /\ last'.res.status = 200)
          => \E i \in 1..Len(users) :
                /\ users[i].id = last'.arg
                /\ \A j \in 1..(i - 1) : users[j].id # last'.arg
                /\ Len(users') = Len(users) - 1
                /\ users' = SubSeq(users, 1, i - 1) \o SubSeq(users, i + 1, Len(users))]_vars

\* C27 witness: two entries carried id 4 and the delete of 4 took the
\* first of them, Dave or Eve, leaving the later one at the end
C27_Witness ==
    /\ last.op = "DELETE /api/users/:id"
    /\ last.arg = <<"4">>
    /\ last.res.status = 200
    /\ Len(users) = 3
    /\ users[3].id = <<"4">>
    /\ Len(createdIds) = 2

\* C28: when POST /api/users returns a created user with id k, the GET
\* /api/users/k that follows immediately answers with that same user, the
\* submitted name and e-mail, and not with another entry.
C28_CreatedUserIsGot ==
    IsCreation(last) =>
        GetUserHandler(last.res.body.user.id)
            = Json([user |-> [id |-> last.res.body.user.id,
                              name |-> last.arg.name,
                              email |-> last.arg.email]])

\* C29: GET /, GET /api/users, GET /api/users/:id, GET /api/posts and GET
\* /api/posts/:id never change the users or posts arrays, whatever they
\* answer; POST /api/users changes only the users array and POST
\* /api/posts only the posts array, each by appending one entry at the end.
ReadOnlyOps ==
    { "GET /", "GET /api/users", "GET /api/users/:id", "GET /api/posts",
      "GET /api/posts/:id" }

C29_HandlersFrame ==
    [][/\ last'.op \in ReadOnlyOps => (users' = users /\ posts' = posts)
       /\ last'.op = "POST /api/users" =>
             /\ posts' = posts
             /\ users' # users =>
                   (Len(users') = Len(users) + 1 /\ SubSeq(users', 1, Len(users)) = users)
             /\ last'.res.outcome = "return" =>
                   users' = Append(users, last'.res.body.user)
       /\ last'.op = "POST /api/posts" =>
             /\ users' = users
             /\ posts' # posts =>
                   (Len(posts') = Len(posts) + 1 /\ SubSeq(posts', 1, Len(posts)) = posts)
             /\ last'.res.outcome = "return" =>
                   posts' = Append(posts, last'.res.body.post)]_vars

\* C29 witness: a post was appended while the users array, one entry
\* short after a delete, stayed as it was
C29_Witness ==
    /\ last.op = "POST /api/posts"
    /\ last.res.outcome = "return"
    /\ posts[Len(posts)] = last.res.body.post
    /\ Len(users) = Len(InitialUsers) - 1

\* C30: GET /api/posts?authorId= with the parameter present but empty is
\* answered as without a filter, with the whole posts array, and not with
\* the empty list of the posts whose authorId is the empty string.
C30_EmptyAuthorIdIsNoFilter ==
    (last.op = "GET /api/posts" /\ last.arg = <<>>) =>
        last.res = Json([posts |-> posts])

\* C30 witness: the empty parameter was answered with all four posts
C30_Witness ==
    /\ last.op = "GET /api/posts"
    /\ last.arg = <<>>
    /\ Len(last.res.body.posts) = Len(InitialPosts) + 1

\* C26: when several POST /api/users or POST /api/posts requests are in
\* flight together and their body-parsing awaits settle in any order, no
\* creation is lost and, no delete taking place, all created entries
\* receive pairwise distinct ids.
C26_ConcurrentCreationsKept ==
    /\ Len(users) = Len(InitialUsers) + Len(createdIds)
    /\ \A k \in 1..Len(createdIds) : users[Len(InitialUsers) + k].id = createdIds[k]
    /\ \A i, j \in 1..Len(createdIds) : i # j => createdIds[i] # createdIds[j]
    /\ posts = InitialPosts \o createdPosts
    /\ \A i, j \in 1..Len(createdPosts) : i # j => createdPosts[i].id # createdPosts[j].id

\* C26 witness: two POST /api/users handlers started on the array of three
\* users; the one that arrived later has resumed and created its user, the
\* earlier one is still awaiting its body
C26_Witness ==
    /\ Len(createdIds) = 1
    /\ last.op = "POST /api/users"
    /\ last.arg.name = "Eve"
    /\ Len(inflight) = 1
    /\ inflight[1].route = "POST /api/users"
    /\ inflight[1].body.name = "Dave"
    /\ inflight[1].seen = Len(InitialUsers)

----------------------------------------------------------------------------
(* Properties of the dispatch *)

PathMatchesNoRoute(routes, path) ==
    \A i \in 1..Len(routes) : ~Matches(routes[i].pattern, path)
MethodMatchesNoRoute(routes, method, path) ==
    /\ \E i \in 1..Len(routes) : Matches(routes[i].pattern, path)
    /\ \A i \in 1..Len(routes) :
          Matches(routes[i].pattern, path) => routes[i].method # method

\* C16: in both applications a request whose path matches no registered
\* route pattern, such as /nonexistent and /api/nonexistent, is answered
\* with status 404 by the framework, no handler runs, and the users and
\* posts arrays stay as they were.
C16_UnroutedPathIs404 ==
    [][(/\ req.app # "none"
        /\ \/ req'.path \in { <<SegNonexistent>>, <<SegApi, SegNonexistent>> }
           \/ PathMatchesNoRoute(RoutesOf(req'.app), req'.path))
          => (/\ (IF req'.app = "nested-routes" THEN last' ELSE resp')
                    = Exchange("no handler", Null, Response(404, Undefined))
              /\ users' = users
              /\ posts' = posts)]_vars

\* C16 witness: nested-routes answered /api/nonexistent with 404 after a
\* user had been deleted
C16_Witness ==
    /\ req.app = "nested-routes"
    /\ req.path = <<SegApi, SegNonexistent>>
    /\ last.op = "no handler"
    /\ last.res.status = 404
    /\ Len(users) < Len(InitialUsers)

\* C17: in basic-api a request whose path matches a registered pattern but
\* whose method no route of that path has, such as PATCH /health, is
\* answered with status 405: not with 404 and not by a handler.
C17_UnregisteredMethodIs405 ==
    [][(/\ req.app = "basic-api"
        /\ \/ req'.method = "PATCH" /\ req'.path = <<SegHealth>>
           \/ MethodMatchesNoRoute(ApiRoutes, req'.method, req'.path))
          => resp' = Exchange("no handler", Null, Response(405, Undefined))]_vars

\* C17 witness: PATCH /health was answered 405 after a resource had been
\* created
C17_Witness ==
    /\ req.app = "basic-api"
    /\ req.method = "PATCH"
    /\ req.path = <<SegHealth>>
    /\ resp.op = "no handler"
    /\ resp.res.status = 405
    /\ Len(postLog) = 1

----------------------------------------------------------------------------
(* basic-orm: properties of the results *)

\* The rows a terminal operation returned: those of all(), or the one row
\* of find() and first() when there is one
RowsFetched ==
    IF fetched.op = "none" \/ fetched.res.outcome # "return" THEN {}
    ELSE IF fetched.op = "all"
         THEN { fetched.res.value[i] : i \in 1..Len(fetched.res.value) }
         ELSE { fetched.res.value } \ { NoRow }

\* The row of a table with the id of a returned row
TableRow(table, id) ==
    CHOOSE row \in { Tables[table][i] : i \in 1..Len(Tables[table]) } : row.id = id

\* The where calls of a chain in the opposite order
Swapped(calls) == [k \in 1..Len(calls) |-> calls[Len(calls) + 1 - k]]

\* The rows of all() on a builder
RowsOfAll(q) == { BuilderAll(q)[i] : i \in 1..Len(BuilderAll(q)) }

\* C21: every row that all() returns at the end of a chain of where calls
\* satisfies each of the clauses called, and the chain with the same calls
\* in the opposite order returns the same set of rows.
C21_WheresConjoin ==
    fetched.op = "all" =>
        /\ \A row \in RowsFetched : \A k \in 1..Len(WhereCalls(fetched.query)) :
              Holds(TableRow(fetched.query.table, row.id), WhereCalls(fetched.query)[k])
        /\ RowsFetched =
              RowsOfAll([fetched.query EXCEPT
                            !.wheres = Swapped(WhereCalls(fetched.query))])

\* C21 witness: all() after two different where calls returned rows, and
\* fewer of them than either clause alone lets through
C21_Witness ==
    /\ fetched.op = "all"
    /\ Len(WhereCalls(fetched.query)) = 2
    /\ WhereCalls(fetched.query)[1] # WhereCalls(fetched.query)[2]
    /\ RowsFetched # {}
    /\ \A k \in 1..2 :
          Cardinality(RowsFetched) <
            Cardinality(RowsOfAll([fetched.query EXCEPT
                                      !.wheres = <<WhereCalls(fetched.query)[k]>>]))

\* The model of a name
ModelNamed(name) == CHOOSE model \in Models : model.name = name

\* A fresh builder of the model with the calls of a chain made on it
ApplyCall(q, call) ==
    CASE call.op = "select" -> BuilderSelect(q, call.arg)
      [] call.op = "exclude" -> BuilderExclude(q, call.arg)
      [] call.op = "where" -> BuilderWhere(q, call.arg)
RECURSIVE Replay(_, _)
Replay(q, calls) ==
    IF calls = <<>> THEN q ELSE Replay(ApplyCall(q, Head(calls)), Tail(calls))
Alone(q) == Replay(Query(ModelNamed(q.model)), q.calls)

\* A builder carries what its own chain called, on a fresh builder, and
\* nothing else
Isolated(q) == q # NoQuery => q = [Alone(q) EXCEPT !.calls = q.calls]

C22_MissingTableNameFailsAtCall ==
    /\ query # NoQuery => query.model \in { model.name : model \in Models }
    /\ (fetched.op # "none" /\ fetched.query.model \in {"Untabled", "EmptyTabled"}) =>
          /\ fetched.op = "failed"
          /\ fetched.arg \in EntryPoints
          /\ fetched.res = Raised(MissingTableName)
          /\ DOMAIN fetched.query = {"model"}
          /\ query = NoQuery

\* C22 witness: count() on the model that declares no table name threw
C22_Witness ==
    /\ fetched.op = "failed"
    /\ fetched.arg = "count"
    /\ fetched.query.model = "Untabled"
    /\ fetched.res.outcome = "throw"

NoRowHasId(table, id) ==
    \A i \in 1..Len(Tables[table]) : Tables[table][i].id # id
NoRowSatisfies(q) ==
    \A i \in 1..Len(Tables[q.table]) :
        \E k \in 1..Len(q.wheres) : ~Holds(Tables[q.table][i], q.wheres[k])

C20_AbsentRowIsNull ==
    /\ (fetched.op = "find" /\ NoRowHasId(fetched.query.table, fetched.arg)) =>
          fetched.res = Returned(NoRow)
    /\ (fetched.op = "first" /\ NoRowSatisfies(fetched.query)) =>
          fetched.res = Returned(NoRow)

\* C20 witness: Users.where("active", 1).where("id", 999).first() matched
\* no row and returned null
C20_Witness ==
    /\ fetched.op = "first"
    /\ fetched.query.model = "Users"
    /\ fetched.query.wheres = <<Clause("active", "=", 1), Clause("id", "=", 999)>>
    /\ fetched.res = Returned(NoRow)

----------------------------------------------------------------------------
(* basic-api: properties of the handlers *)

Answered(x, op) == x.op = op /\ x.res.outcome = "return"
ItemText(n) == <<"I", "t", "e", "m", " ">> \o String(n)

\* C3: two POST /resources requests sent with the same JSON object body
\* are both answered 201 and the id fields of the two responses differ.
C3_SameBodyDifferentIds ==
    \A i, j \in 1..Len(postLog) :
        (i # j /\ postLog[i].arg = postLog[j].arg) =>
            /\ postLog[i].res.status = 201
            /\ postLog[j].res.status = 201
            /\ postLog[i].res.body["id"] # postLog[j].res.body["id"]

\* C4: the response of PUT /resources/:id carries the path id unchanged in
\* its id field and echoes every other field of the body.
C4_PutEchoesIdAndBody ==
    Answered(resp, "PUT /resources/:id") =>
        /\ resp.res.body["id"] = resp.arg.id
        /\ \A f \in DOMAIN resp.arg.body \ {"id"} :
                resp.res.body[f] = resp.arg.body[f]

\* C5: GET /users/:id answers {id, name: 'User <id>', email:
\* 'user<id>@example.com'} and GET /users/:userId/posts/:postId answers
\* {userId, postId, title: 'Post <postId> by User <userId>', content}, each
\* built from the path parameters alone, so equal paths give equal bodies.
C5_PathParamsEchoed ==
    /\ resp.op = "GET /users/:id" =>
        resp.res =
            [outcome |-> "return", status |-> 200,
             body |-> [id |-> resp.arg,
                       name |-> <<"U", "s", "e", "r", " ">> \o resp.arg,
                       email |-> <<"u", "s", "e", "r">> \o resp.arg
                                    \o <<"@", "e", "x", "a", "m", "p", "l", "e">>
                                    \o <<".", "c", "o", "m">>]]
    /\ resp.op = "GET /users/:userId/posts/:postId" =>
        resp.res =
            [outcome |-> "return", status |-> 200,
             body |-> [userId |-> resp.arg.userId,
                       postId |-> resp.arg.postId,
                       title |-> <<"P", "o", "s", "t", " ">> \o resp.arg.postId
                                    \o <<" ", "b", "y", " ">>
                                    \o <<"U", "s", "e", "r", " ">> \o resp.arg.userId,
                       content |-> "This is a sample post content."]]

C5_Witness ==
    /\ resp.op = "GET /users/:userId/posts/:postId"
    /\ resp.arg.userId = <<"1">>
    /\ resp.arg.postId = <<"4", "2">>
    /\ resp.res.body.title =
        <<"P", "o", "s", "t", " ", "4", "2", " ", "b", "y", " ", "U", "s", "e", "r", " ", "1">>

\* C6: for integers p >= 1 and l >= 1 given as page and limit, GET /items
\* reports page = p and limit = l and lists exactly l items, the item at
\* position i having id (p-1)*l + i and name 'Item <id>'.
C6_Pagination ==
    \A p \in 1..MaxPage, l \in 1..MaxLimit :
        (/\ resp.op = "GET /items"
         /\ resp.arg.page \in {String(p), <<"0">> \o String(p)}
         /\ resp.arg.limit = String(l)) =>
            /\ resp.res.status = 200
            /\ resp.res.body.page = p
            /\ resp.res.body.limit = l
            /\ Len(resp.res.body.items) = l
            /\ \A i \in 1..l :
                resp.res.body.items[i] =
                    [id |-> (p - 1) * l + i, name |-> ItemText((p - 1) * l + i)]

C6_Witness ==
    /\ resp.op = "GET /items"
    /\ resp.arg.page = <<"3">>
    /\ resp.arg.limit = <<"4">>
    /\ resp.res.body.items[1].id = 9
    /\ resp.res.body.items[4].name = <<"I", "t", "e", "m", " ", "1", "2">>

\* C7: the search field of GET /items is null when the search parameter is
\* absent or empty, the parameter itself otherwise, and never the empty
\* string.
C7_SearchNormalised ==
    resp.op = "GET /items" =>
        /\ resp.arg.search \in {Null, <<>>} => resp.res.body.search = Null
        /\ resp.arg.search \notin {Null, <<>>} => resp.res.body.search = resp.arg.search
        /\ resp.res.body.search # <<>>

C7_Witness ==
    /\ resp.op = "GET /items"
    /\ resp.arg.search = <<>>
    /\ resp.res.body.search = Null

\* C8: a missing or empty page defaults to 1 and a missing or empty limit
\* to 10; total is 100 in every response; without any parameter the
\* response is page 1, limit 10 and exactly the items with ids 1..10.
C8_ItemsDefaults ==
    resp.op = "GET /items" =>
        /\ resp.arg.page \in {Null, <<>>} => resp.res.body.page = 1
        /\ resp.arg.limit \in {Null, <<>>} => resp.res.body.limit = 10
        /\ resp.res.body.total = 100
        /\ resp.arg = [page |-> Null, limit |-> Null, search |-> Null] =>
                resp.res =
                    [outcome |-> "return", status |-> 200,
                     body |-> [page |-> 1, limit |-> 10, search |-> Null, total |-> 100,
                               items |-> [i \in 1..10 |-> [id |-> i, name |-> ItemText(i)]]]]

C8_Witness ==
    /\ resp.op = "GET /items"
    /\ resp.arg = [page |-> Null, limit |-> Null, search |-> Null]
    /\ Len(resp.res.body.items) = 10
    /\ resp.res.body.items[10].id = 10

----------------------------------------------------------------------------
(* Properties of the logging middleware *)

\* C24: for every request the logging middleware calls next() exactly once,
\* what it returns to its caller is the response next() produced, unmodified,
\* and the console holds no more lines than next() calls have completed: the
\* line of a request is written only after its next() has completed
C24_MiddlewarePassesThrough ==
    /\ mw.pc \in {"awaiting", "resumed", "logged", "returned", "rejected"}
          => mw.calls = 1
    /\ mw.pc \in {"resumed", "logged", "returned"}
          => /\ mw.response = resp.res
             /\ req.method = mw.method
             /\ req.path = mw.path
    /\ mw.pc = "returned" => mw.returned = resp.res
    /\ mw.pc # "returned" => mw.returned = Pending
    /\ Len(mw.log) <= mw.completed
    /\ mw.pc \in {"logged", "returned"} => Len(mw.log) = mw.completed
    /\ mw.pc = "resumed" => Len(mw.log) = mw.completed - 1

\* C24 witness: a second request has come back through the middleware with
\* the 404 of the dispatch, after a first one was logged
C24_Witness ==
    /\ mw.pc = "returned"
    /\ mw.returned = Response(404, Undefined)
    /\ Len(mw.log) = 2
    /\ mw.log[2].pathname = <<SegNonexistent>>

----------------------------------------------------------------------------
Init ==
    /\ users = InitialUsers
    /\ posts = InitialPosts
    /\ last = NoRequest
    /\ createdIds = <<>>
    /\ createdPosts = <<>>
    /\ resp = NoRequest
    /\ issued = {}
    /\ postLog = <<>>
    /\ req = NoneReceived
    /\ query = NoQuery
    /\ fetched = NothingFetched
    /\ held = NoQuery
    /\ mw = MiddlewareIdle
    /\ inflight = <<>>

Next ==
    \/ ListUsers /\ UNCHANGED callerVars
    \/ GetUser /\ UNCHANGED callerVars
    \/ CreateUser /\ UNCHANGED callerVars
    \/ CreateUserMalformed /\ UNCHANGED callerVars
    \/ DeleteUser /\ UNCHANGED callerVars
    \/ ListPosts /\ UNCHANGED callerVars
    \/ GetPost /\ UNCHANGED callerVars
    \/ CreatePost /\ UNCHANGED callerVars
    \/ CreatePostMalformed /\ UNCHANGED callerVars
    \/ Root /\ UNCHANGED callerVars

Spec == Init /\ [][Next]_vars

\* basic-api: the handlers that keep no state
NextApi ==
    \/ GetApiUser /\ UNCHANGED callerVars
    \/ GetApiUserPost /\ UNCHANGED callerVars
    \/ GetItems /\ UNCHANGED callerVars
    \/ UpdateResource /\ UNCHANGED callerVars
    \/ UpdateResourceMalformed /\ UNCHANGED callerVars
    \/ DeleteResource /\ UNCHANGED callerVars

SpecApi == Init /\ [][NextApi]_vars

\* basic-api: POST /resources with the UUID generator
NextResources ==
    \/ CreateResource /\ UNCHANGED callerVars
    \/ CreateResourceMalformed /\ UNCHANGED callerVars

SpecResources == Init /\ [][NextResources]_vars

\* Both servers behind the framework's dispatch, one of them started
NextRouting ==
    \/ Listen
    \/ ServeNested /\ UNCHANGED <<mw, inflight>>
    \/ ServeApi /\ UNCHANGED <<mw, inflight>>

SpecRouting == Init /\ [][NextRouting]_vars

\* basic-orm: the queries of the example on the test database
NextOrm ==
    \/ StartQuery
    \/ AddSelect
    \/ AddExclude
    \/ AddWhere
    \/ FetchAll
    \/ FetchFirst
    \/ FetchFind

SpecOrm == Init /\ [][NextOrm]_vars

\* basic-orm: two chains of one caller, one of them kept while the other runs
NextChains ==
    \/ StartQuery
    \/ AddSelect
    \/ AddExclude
    \/ AddWhere
    \/ FetchAll
    \/ FetchFirst
    \/ FetchFind
    \/ SetAside
    \/ Resume

SpecChains == Init /\ [][NextChains]_vars

\* nested-routes: POST requests in flight together, no delete
NextMiddleware ==
    \/ Listen
    \/ MiddlewareEnter
    \/ MiddlewareNext
    \/ MiddlewareLog
    \/ MiddlewareReturn

SpecMiddleware == Init /\ [][NextMiddleware]_vars

NextConcurrent ==
    \/ BeginCreateUser
    \/ BeginCreatePost
    \/ ResumeCreateUser
    \/ ResumeCreatePost

SpecConcurrent == Init /\ [][NextConcurrent]_vars
====
